---- MODULE Spec2Model ----
(***************************************************************************)
(* A model of the baton-wiz-win connector: the GraphQL transport with its  *)
(* retry/backoff loop (pkg/wiz client.graphQLRequest, calculateBackoff)    *)
(* and the resource mappers that page through the upstream collections.    *)
(* Durations are in milliseconds.                                          *)
(***************************************************************************)
EXTENDS Integers, Sequences, FiniteSets, TLC

VARIABLES
    pc,         \* position of the graphQLRequest call: idle, do, inflight, sleep, done
    attempt,    \* the loop variable `attempt`
    requests,   \* number of httpClient.Do calls made by this graphQLRequest call
    outcomes,   \* what each httpClient.Do call produced, in order
    sleeps,     \* the arguments of the time.Sleep calls, in order
    result,     \* what graphQLRequest returned
    urlValid,   \* whether http.NewRequestWithContext accepts c.apiURL
    ctxDone,    \* the caller's context has been cancelled
    cancelAt,   \* where the call was, and what it had done, when the context was cancelled
    bk,         \* calculateBackoff applied on its own: input and returned delay
    fn,         \* a string function of the insight mapper applied on its own: input, output
    inv,        \* the mapper invocations under way on two goroutines, each with its locals
    world,      \* the upstream collections: users, roles, projects, issues
    cur,        \* the orchestrator's current traversal: operation, resource, next page token
    ret,        \* what the last mapper operation returned, and what it asked of the upstream
    listed      \* the resources the List operations have returned so far

transportVars == <<pc, attempt, requests, outcomes, sleeps, result, urlValid, ctxDone, cancelAt>>
\* what graphQLRequest does not touch
nonTransportVars == <<bk, fn, inv, world, cur, ret, listed>>

\* no mapper operation has been invoked
NoPageInfo == [hasNextPage |-> FALSE, endCursor |-> ""]
NoReturn ==
    [op |-> "none", token |-> "", out |-> << >>, next |-> "", err |-> "ok",
     cause |-> "ok", sent |-> << >>, nodes |-> << >>, pageInfo |-> NoPageInfo]
IdleWalk ==
    [op |-> "none",
     arg |-> [type |-> "none", id |-> "", profile |-> [role_id |-> "", project_ids |-> << >>]],
     token |-> "", phase |-> "none", calls |-> 0, seen |-> << >>, emitted |-> << >>,
     repeat |-> "no", transport |-> "none"]
EmptyWorld == [users |-> << >>, roles |-> << >>, projects |-> << >>, issues |-> << >>]
MapperIdle ==
    /\ world = EmptyWorld
    /\ cur = IdleWalk
    /\ ret = NoReturn
    /\ listed = {}
mapperVars == <<world, cur, ret, listed>>
vars == <<pc, attempt, requests, outcomes, sleeps, result, urlValid, ctxDone, cancelAt, bk,
          fn, inv, world, cur, ret, listed>>

(***************************************************************************)
(* Constants of graphQLRequest.                                            *)
(***************************************************************************)
maxRetries == 5
baseDelay == 1000
maxDelay == 32000
\* jitterFraction = 0.1, as thousandths
jitterPermille == 100

\* rand.Float64() is drawn from {0/JitterSteps, ..., (JitterSteps-1)/JitterSteps}
JitterSteps == 3
\* the finer grid of draws for calculateBackoff applied on its own
JitterDraws == 10
\* calculateBackoff on its own is applied to attempts 0..MaxAttemptArg
MaxAttemptArg == 6

Min(a, b) == IF a < b THEN a ELSE b

(***************************************************************************)
(* calculateBackoff(attempt, baseDelay, maxDelay, jitterFraction) with the *)
(* draw rand.Float64() = r / steps.  The float arithmetic is done exactly  *)
(* over the denominator 1000 * steps; time.Duration(backoff) truncates.    *)
(***************************************************************************)
\* the same without the cap at maxDelay
calculateBackoffUncapped(att, base, cap, permille, r, steps) ==
    LET backoff == base * (2 ^ att)
        den     == 1000 * steps
        jitter  == backoff * permille * (2 * r - steps)
    IN  (backoff * den + jitter) \div den

\* the same with the jitter 2*rand.Float64() instead of 2*rand.Float64() - 1
calculateBackoffOneSided(att, base, cap, permille, r, steps) ==
    LET raw     == base * (2 ^ att)
        backoff == IF raw > cap THEN cap ELSE raw
        den     == 1000 * steps
        jitter  == backoff * permille * (2 * r)
    IN  (backoff * den + jitter) \div den

calculateBackoff(att, base, cap, permille, r, steps) ==
    LET raw     == base * (2 ^ att)
        backoff == IF raw > cap THEN cap ELSE raw
        den     == 1000 * steps
        jitter  == backoff * permille * (2 * r - steps)
    IN  (backoff * den + jitter) \div den


(***************************************************************************)
(* What one httpClient.Do call, followed by io.ReadAll of the body, can    *)
(* produce.  do = "error": Do returned an error (a network failure, or the *)
(* context's error when the context is cancelled).  read = "error":        *)
(* io.ReadAll failed.  body: "valid" is a JSON envelope without errors,    *)
(* "errors" a JSON envelope with a non-empty errors array, "malformed" is  *)
(* not JSON.                                                               *)
(***************************************************************************)
StatusOK == 200
StatusTooManyRequests == 429
Statuses == {200, 201, 400, 401, 429, 500, 503}

Outcome(d, rd, st, b) == [do |-> d, read |-> rd, status |-> st, body |-> b]
NetFail == Outcome("error", "none", 0, "none")
ReadFail == Outcome("ok", "error", 200, "none")
Outcomes ==
    {NetFail, ReadFail}
    \cup {Outcome("ok", "ok", st, "malformed") : st \in Statuses \ {StatusOK}}
    \cup {Outcome("ok", "ok", StatusOK, b) : b \in {"valid", "errors", "malformed"}}

\* With the context cancelled, Do returns the context's error; when the
\* cancellation came during this attempt, the headers may have arrived
\* before it, and then io.ReadAll fails.
CancelledOutcomes(duringThisAttempt) ==
    IF duringThisAttempt THEN {NetFail, ReadFail} ELSE {NetFail}

(***************************************************************************)
(* The body of the retry loop after httpClient.Do has returned outcome o   *)
(* on attempt att: what the call does next.  "sleep" is time.Sleep         *)
(* followed by continue, any other value is the error (or "ok") returned.  *)
(***************************************************************************)
\* a loop that also retries a GraphQL errors envelope
HandleRetryGraphQLErrors(o, att) ==
    IF o.do = "error"
    THEN IF att < maxRetries THEN "sleep" ELSE "err_execute"
    ELSE IF o.read = "error" THEN "err_read"
    ELSE IF o.status = StatusTooManyRequests
    THEN IF att < maxRetries THEN "sleep" ELSE "err_rate_limit"
    ELSE IF o.status # StatusOK THEN "err_status"
    ELSE IF o.body = "malformed" THEN "err_unmarshal"
    ELSE IF o.body = "errors"
    THEN IF att < maxRetries THEN "sleep" ELSE "err_graphql"
    ELSE "ok"

\* a loop that also retries 5xx statuses
HandleRetryServerErrors(o, att) ==
    IF o.do = "error"
    THEN IF att < maxRetries THEN "sleep" ELSE "err_execute"
    ELSE IF o.read = "error" THEN "err_read"
    ELSE IF o.status = StatusTooManyRequests \/ o.status >= 500
    THEN IF att < maxRetries THEN "sleep" ELSE "err_rate_limit"
    ELSE IF o.status # StatusOK THEN "err_status"
    ELSE IF o.body = "malformed" THEN "err_unmarshal"
    ELSE IF o.body = "errors" THEN "err_graphql"
    ELSE "ok"

\* a loop that returns a network failure at once
HandleNetFatal(o, att) ==
    IF o.do = "error" THEN "err_execute"
    ELSE IF o.read = "error" THEN "err_read"
    ELSE IF o.status = StatusTooManyRequests
    THEN IF att < maxRetries THEN "sleep" ELSE "err_rate_limit"
    ELSE IF o.status # StatusOK THEN "err_status"
    ELSE IF o.body = "malformed" THEN "err_unmarshal"
    ELSE IF o.body = "errors" THEN "err_graphql"
    ELSE "ok"

\* a loop that gives up one attempt earlier
HandleFiveAttempts(o, att) ==
    IF o.do = "error"
    THEN IF att < maxRetries - 1 THEN "sleep" ELSE "err_execute"
    ELSE IF o.read = "error" THEN "err_read"
    ELSE IF o.status = StatusTooManyRequests
    THEN IF att < maxRetries - 1 THEN "sleep" ELSE "err_rate_limit"
    ELSE IF o.status # StatusOK THEN "err_status"
    ELSE IF o.body = "malformed" THEN "err_unmarshal"
    ELSE IF o.body = "errors" THEN "err_graphql"
    ELSE "ok"

Handle(o, att) ==
    IF o.do = "error"
    THEN IF att < maxRetries THEN "sleep" ELSE "err_execute"
    ELSE IF o.read = "error" THEN "err_read"
    ELSE IF o.status = StatusTooManyRequests
    THEN IF att < maxRetries THEN "sleep" ELSE "err_rate_limit"
    ELSE IF o.status # StatusOK THEN "err_status"
    ELSE IF o.body = "malformed" THEN "err_unmarshal"
    ELSE IF o.body = "errors" THEN "err_graphql"
    ELSE "ok"

(***************************************************************************)
(* graphQLRequest, one step at a time.                                     *)
(***************************************************************************)
TransportInit ==
    /\ pc = "idle"
    /\ attempt = 0
    /\ requests = 0
    /\ outcomes = << >>
    /\ sleeps = << >>
    /\ result = "none"
    /\ urlValid \in BOOLEAN
    /\ ctxDone \in BOOLEAN
    /\ cancelAt = [phase |-> "none", requests |-> 0, sleeps |-> 0]

\* graphQLRequest is called: the request body is marshalled, attempt := 0
Call ==
    /\ pc = "idle"
    /\ pc' = "do"
    /\ attempt' = 0
    /\ UNCHANGED <<requests, outcomes, sleeps, result, urlValid, ctxDone, cancelAt>>
    /\ UNCHANGED nonTransportVars

\* http.NewRequestWithContext fails: the call returns without a request
NewRequestFails ==
    /\ pc = "do"
    /\ ~urlValid
    /\ pc' = "done"
    /\ result' = "err_create_request"
    /\ UNCHANGED <<attempt, requests, outcomes, sleeps, urlValid, ctxDone, cancelAt>>
    /\ UNCHANGED nonTransportVars

\* c.httpClient.Do(req) is entered
Do ==
    /\ pc = "do"
    /\ urlValid
    /\ pc' = "inflight"
    /\ requests' = requests + 1
    /\ UNCHANGED <<attempt, outcomes, sleeps, result, urlValid, ctxDone, cancelAt>>
    /\ UNCHANGED nonTransportVars

\* the caller cancels the context while the call is running
Cancel ==
    /\ pc \in {"do", "inflight", "sleep"}
    /\ ~ctxDone
    /\ ctxDone' = TRUE
    /\ cancelAt' = [phase |-> pc, requests |-> requests, sleeps |-> Len(sleeps)]
    /\ UNCHANGED <<pc, attempt, requests, outcomes, sleeps, result, urlValid>>
    /\ UNCHANGED nonTransportVars

\* httpClient.Do and io.ReadAll return, and the loop body decides
Respond ==
    /\ pc = "inflight"
    /\ \E o \in (IF ctxDone
                 THEN CancelledOutcomes(cancelAt.phase = "inflight"
                                        /\ cancelAt.requests = requests)
                 ELSE Outcomes) :
        /\ outcomes' = Append(outcomes, o)
        /\ IF Handle(o, attempt) = "sleep"
           THEN pc' = "sleep" /\ result' = result
           ELSE pc' = "done" /\ result' = Handle(o, attempt)
    /\ UNCHANGED <<attempt, requests, sleeps, urlValid, ctxDone, cancelAt>>
    /\ UNCHANGED nonTransportVars

\* a sleep computed from the number of the attempt counted from 1
SleepOneBased ==
    /\ pc = "sleep"
    /\ \E r \in 0 .. (JitterSteps - 1) :
        sleeps' = Append(sleeps,
            calculateBackoff(attempt + 1, baseDelay, maxDelay, jitterPermille, r, JitterSteps))
    /\ attempt' = attempt + 1
    /\ pc' = "do"
    /\ UNCHANGED <<requests, outcomes, result, urlValid, ctxDone, cancelAt>>
    /\ UNCHANGED nonTransportVars

\* time.Sleep(calculateBackoff(attempt, ...)); continue
Sleep ==
    /\ pc = "sleep"
    /\ \E r \in 0 .. (JitterSteps - 1) :
        sleeps' = Append(sleeps,
            calculateBackoff(attempt, baseDelay, maxDelay, jitterPermille, r, JitterSteps))
    /\ attempt' = attempt + 1
    /\ pc' = "do"
    /\ UNCHANGED <<requests, outcomes, result, urlValid, ctxDone, cancelAt>>
    /\ UNCHANGED nonTransportVars

RetryNext ==
    \/ Call
    \/ NewRequestFails
    \/ Do
    \/ Cancel
    \/ Respond
    \/ Sleep

BackoffIdle == bk = [k |-> 0, r |-> 0, delay |-> -1]
FnIdle == fn = [name |-> "none", input |-> << >>, out |-> << >>, applied |-> FALSE]
Goroutines == {"g1", "g2"}
NoInvocation == [pc |-> "idle"]
InvIdle == inv = [g \in Goroutines |-> NoInvocation]

RetryInit == TransportInit /\ BackoffIdle /\ FnIdle /\ InvIdle /\ MapperIdle

SpecRetry == RetryInit /\ [][RetryNext]_vars

\* the scheduler runs the calling goroutine: every step of the call is taken
SpecRetryFair ==
    /\ SpecRetry
    /\ WF_vars(Call \/ NewRequestFails \/ Do \/ Respond \/ Sleep)

(***************************************************************************)
(* calculateBackoff applied on its own to every attempt index and draw.    *)
(***************************************************************************)
TransportIdle ==
    /\ pc = "idle"
    /\ attempt = 0
    /\ requests = 0
    /\ outcomes = << >>
    /\ sleeps = << >>
    /\ result = "none"
    /\ urlValid = TRUE
    /\ ctxDone = FALSE
    /\ cancelAt = [phase |-> "none", requests |-> 0, sleeps |-> 0]

BackoffInit ==
    \E k \in 0 .. MaxAttemptArg, r \in 0 .. (JitterDraws - 1) :
        bk = [k |-> k, r |-> r, delay |-> -1]

ApplyBackoff ==
    /\ bk.delay = -1
    /\ bk' = [bk EXCEPT !.delay =
                calculateBackoff(bk.k, baseDelay, maxDelay, jitterPermille, bk.r, JitterDraws)]
    /\ UNCHANGED transportVars
    /\ UNCHANGED mapperVars
    /\ UNCHANGED <<fn, inv>>

BackoffOnlyInit == BackoffInit /\ TransportIdle /\ FnIdle /\ InvIdle /\ MapperIdle

BackoffNext == ApplyBackoff

SpecBackoff == BackoffOnlyInit /\ [][BackoffNext]_vars

(***************************************************************************)
(* The upstream collections.  An empty string is an absent field.          *)
(***************************************************************************)
\* records per upstream page (first: 100 in the queries), scaled down
PageSize == 2
MaxUsers == 3
MaxProjects == 3
MaxIssues == 2
MaxRoles == 2

\* the upstream's records are distinct: no record occurs twice in a collection
SeqsUpTo(S, n) ==
    UNION {{q \in [1 .. k -> S] : \A i, j \in 1 .. k : q[i] = q[j] => i = j} : k \in 0 .. n}

\* wiz.User: id, email, effectiveRole.id, effectiveAssignedProjects[].id
User(id, email, role, projects) ==
    [id |-> id, email |-> email, effectiveRole |-> role, effectiveAssignedProjects |-> projects]
UserKinds ==
    { User("u1", "a@x", "r1", <<"p1">>),
      User("u2", "", "r1", <<"p1", "p2">>),
      User("u3", "b@x", "", << >>),
      User("u4", "c@x", "r2", <<"", "p2">>) }

\* wiz.Project: id, projectOwners[], securityChampions[] (each id, email)
Person(id, email) == [id |-> id, email |-> email]
Project(id, owners, champions) ==
    [id |-> id, projectOwners |-> owners, securityChampions |-> champions]
ProjectKinds ==
    { Project("p1", <<Person("u1", "a@x"), Person("u2", "")>>, <<Person("u3", "b@x")>>),
      Project("p2", << >>, <<Person("u2", ""), Person("u1", "a@x")>>),
      Project("p3", <<Person("u4", "c@x"), Person("u3", "b@x")>>, <<Person("u1", "a@x")>>) }

\* wiz.Issue: id, severity, status, entitySnapshot.type, entitySnapshot.externalId
IssueWith(id, severity, status, entityType, ext) ==
    [id |-> id, severity |-> severity, status |-> status, entityType |-> entityType,
     externalId |-> ext]
Issue(id, severity, ext) == IssueWith(id, severity, "OPEN", "USER_ACCOUNT", ext)
IssueKinds ==
    { Issue("i1", "HIGH", "arn:aws:iam::1:user/a"),
      Issue("", "LOW", "arn:aws:iam::1:user/b"),
      Issue("i3", "LOW", ""),
      IssueWith("i4", "LOW", "IN_PROGRESS", "SERVICE_ACCOUNT", "/subscriptions/s1/sp/b") }

\* wiz.UserRole: id, name
UserRole(id, name) == [id |-> id, name |-> name]
RoleKinds == { UserRole("r1", "Admin"), UserRole("r2", "Reader") }

DefaultWorld ==
    [users    |-> <<User("u1", "a@x", "r1", <<"p1">>)>>,
     roles    |-> <<UserRole("r1", "Admin")>>,
     projects |-> <<Project("p2", << >>, <<Person("u2", ""), Person("u1", "a@x")>>)>>,
     issues   |-> <<Issue("i1", "HIGH", "arn:aws:iam::1:user/a")>>]

\* one collection varies over every sequence within its bound, the others are fixed
Worlds ==
    {[DefaultWorld EXCEPT !.users = c] : c \in SeqsUpTo(UserKinds, MaxUsers)}
    \cup {[DefaultWorld EXCEPT !.projects = c] : c \in SeqsUpTo(ProjectKinds, MaxProjects)}
    \cup {[DefaultWorld EXCEPT !.issues = c] : c \in SeqsUpTo(IssueKinds, MaxIssues)}
    \cup {[DefaultWorld EXCEPT !.roles = c] : c \in SeqsUpTo(RoleKinds, MaxRoles)}

(***************************************************************************)
(* The upstream's cursor pagination: the cursor handed out with a page     *)
(* names the last record of that page; a request without a cursor starts   *)
(* at the first record.                                                    *)
(***************************************************************************)
NoCursor == "<absent>"
CursorNames == <<"c1", "c2", "c3", "c4", "c5", "c6", "c7", "c8">>
OffsetOf(cursor) ==
    IF cursor = NoCursor THEN 0
    ELSE CHOOSE k \in 1 .. Len(CursorNames) : CursorNames[k] = cursor

PageOf(items, cursor) ==
    LET start == OffsetOf(cursor)
        end   == Min(start + PageSize, Len(items))
    IN  [nodes    |-> SubSeq(items, start + 1, end),
         pageInfo |-> [hasNextPage |-> end < Len(items),
                       endCursor   |-> IF end > start THEN CursorNames[end] ELSE ""]]

(***************************************************************************)
(* graphQLRequest run to its end on a given sequence of upstream outcomes. *)
(***************************************************************************)
RECURSIVE RunLoop(_, _)
RunLoop(run, att) ==
    LET h == Handle(run[att + 1], att)
    IN  IF h = "sleep" THEN RunLoop(run, att + 1) ELSE h

graphQLRequest(run) == RunLoop(run, 0)

ValidBody == Outcome("ok", "ok", StatusOK, "valid")
RateLimited == Outcome("ok", "ok", StatusTooManyRequests, "malformed")
TransportRuns ==
    { <<ValidBody>>,
      <<NetFail, RateLimited, NetFail, ValidBody>>,
      <<Outcome("ok", "ok", StatusOK, "errors")>>,
      <<RateLimited, NetFail, RateLimited, NetFail, RateLimited, RateLimited>> }

(***************************************************************************)
(* The client's list calls: the cursor variable is set only for a non-nil, *)
(* non-empty cursor; the connection is the page the upstream answers with. *)
(***************************************************************************)
\* a builder that passes no cursor at all
CursorArgDropped(token) == NoCursor

\* the builders' `if attr.PageToken.Token != "" { cursor = &token }` and the
\* client's `if cursor != nil && *cursor != ""`
CursorArg(token) == IF token # "" THEN token ELSE NoCursor

EmptyConnection == [nodes |-> << >>, pageInfo |-> NoPageInfo]

\* a list call that decodes every retried response on top of the one before
ClientListAppending(items, cursor, run) ==
    LET st   == graphQLRequest(run)
        page == PageOf(items, cursor)
    IN  [err  |-> st,
         sent |-> <<cursor>>,
         conn |-> IF st # "ok" THEN EmptyConnection
                  ELSE IF Len(run) > 1 THEN [page EXCEPT !.nodes = page.nodes \o page.nodes]
                  ELSE page]

ClientList(items, cursor, run) ==
    LET st == graphQLRequest(run)
    IN  [err  |-> st,
         sent |-> <<cursor>>,
         conn |-> IF st = "ok" THEN PageOf(items, cursor) ELSE EmptyConnection]

ListUsers(w, cursor, run) == ClientList(w.users, cursor, run)
ListProjects(w, cursor, run) == ClientList(w.projects, cursor, run)
ListIssues(w, cursor, run) == ClientList(w.issues, cursor, run)

\* a role listing that pages through the roles like the other collections
ListUserRolesPaged(w, cursor, run) == ClientList(w.roles, cursor, run)

\* userRolesV2 answers with a plain array: the cursor is not sent and the
\* connection carries the zero PageInfo
ListUserRoles(w, cursor, run) ==
    LET st == graphQLRequest(run)
    IN  [err  |-> st,
         sent |-> <<NoCursor>>,
         conn |-> IF st = "ok"
                  THEN [nodes |-> w.roles, pageInfo |-> NoPageInfo]
                  ELSE EmptyConnection]

(***************************************************************************)
(* Resources, entitlements and grants.                                     *)
(***************************************************************************)
ResourceId(type, id) == [type |-> type, id |-> id]
NoProfile == [role_id |-> "", project_ids |-> << >>]
Resource(type, id, profile) == [type |-> type, id |-> id, profile |-> profile]
Grant(res, slug, principal) ==
    [resource |-> ResourceId(res.type, res.id), slug |-> slug, principal |-> principal]

\* syncResults.NextPageToken is left empty on the last page
NextPageTokenAlways(pageInfo) == pageInfo.endCursor

NextPageToken(pageInfo) == IF pageInfo.hasNextPage THEN pageInfo.endCursor ELSE ""

\* what an operation returns: records, next page token, error; with what it
\* sent to the upstream (one cursor per list call) and the page it got
Return(op, token, out, next, err, sent, conn) ==
    [op |-> op, token |-> token, out |-> out, next |-> next, err |-> err, cause |-> "ok",
     sent |-> sent, nodes |-> conn.nodes, pageInfo |-> conn.pageInfo]
\* fmt.Errorf("...: %w", err): the message wraps the transport's error
Failed(op, token, err, cause, sent) ==
    [Return(op, token, << >>, "", err, sent, EmptyConnection) EXCEPT !.cause = cause]
Nothing(op, token) == Return(op, token, << >>, "", "ok", << >>, EmptyConnection)

\* a List that identifies its resources by the upstream user ID
UserResourcesKeyedById(nodes) ==
    LET kept == SelectSeq(nodes, LAMBDA u : u.email # "")
    IN  [i \in 1 .. Len(kept) |->
            Resource("user", kept[i].id,
                     [role_id |-> kept[i].effectiveRole,
                      project_ids |-> kept[i].effectiveAssignedProjects])]

\* a List that keeps the users without an email
UserResourcesUnfiltered(nodes) ==
    [i \in 1 .. Len(nodes) |->
        Resource("user", nodes[i].email,
                 [role_id |-> nodes[i].effectiveRole,
                  project_ids |-> nodes[i].effectiveAssignedProjects])]

\* userBuilder.List's loop: users without an email are skipped; role_id and
\* project_ids go into the profile (an absent key is the empty value)
UserResources(nodes) ==
    LET kept == SelectSeq(nodes, LAMBDA u : u.email # "")
    IN  [i \in 1 .. Len(kept) |->
            Resource("user", kept[i].email,
                     [role_id |-> kept[i].effectiveRole,
                      project_ids |-> kept[i].effectiveAssignedProjects])]

\* a List that answers a failed list call with an empty last page
UserListSuppressing(w, token, run) ==
    LET resp == ListUsers(w, CursorArg(token), run)
    IN  Return("user.List", token, UserResources(resp.conn.nodes),
               NextPageToken(resp.conn.pageInfo), "ok", resp.sent, resp.conn)

UserList(w, token, run) ==
    LET resp == ListUsers(w, CursorArg(token), run)
    IN  IF resp.err # "ok"
        THEN Failed("user.List", token, "failed to list users", resp.err, resp.sent)
        ELSE Return("user.List", token, UserResources(resp.conn.nodes),
                    NextPageToken(resp.conn.pageInfo), "ok", resp.sent, resp.conn)

\* a user resource whose trait carries no profile at all
NilProfile == [nil |-> TRUE]
WithoutProfile(res) == [res EXCEPT !.profile = NilProfile]

\* a role Grants that derives the members of the role from the users
RoleGrantsFromUsers(w, res, token) ==
    LET members == SelectSeq(w.users, LAMBDA u : u.email # "" /\ u.effectiveRole = res.id)
    IN  Return("role.Grants", token,
               [i \in 1 .. Len(members) |->
                   Grant(res, "member", ResourceId("user", members[i].email))],
               "", "ok", << >>, EmptyConnection)

\* roleBuilder.Grants: nothing, whatever the role and the page token
RoleGrants(w, res, token) == Nothing("role.Grants", token)

\* a user Grants that emits the project memberships only, empty IDs included
UserGrantsProjectsOnly(res, token) ==
    IF res.profile = NilProfile
    THEN Return("user.Grants", token, << >>, "", "ok", << >>, EmptyConnection)
    ELSE Return("user.Grants", token,
                [i \in 1 .. Len(res.profile.project_ids) |->
                    Grant(ResourceId("project", res.profile.project_ids[i]), "member",
                          ResourceId(res.type, res.id))],
                "", "ok", << >>, EmptyConnection)

\* a user Grants that asks the upstream for the users again
UserGrantsRefetching(res, token) ==
    LET resp == ListUsers(world, CursorArg(token), <<ValidBody>>)
        mine == SelectSeq(resp.conn.nodes, LAMBDA u : u.email = res.id /\ u.effectiveRole # "")
    IN  Return("user.Grants", token,
               [i \in 1 .. Len(mine) |->
                   Grant(ResourceId("role", mine[i].effectiveRole), "member",
                         ResourceId(res.type, res.id))],
               NextPageToken(resp.conn.pageInfo), "ok", resp.sent, resp.conn)

\* a user Grants that fails on a profile without role and projects
UserGrantsStrict(res, token) ==
    IF res.profile = NilProfile
       \/ (res.profile.role_id = "" /\ res.profile.project_ids = << >>)
    THEN Failed("user.Grants", token, "failed to get user profile", "ok", << >>)
    ELSE Return("user.Grants", token,
                <<Grant(ResourceId("role", res.profile.role_id), "member",
                        ResourceId(res.type, res.id))>>,
                "", "ok", << >>, EmptyConnection)

\* userBuilder.Grants: from the profile only; no profile, no grants
UserGrants(res, token) ==
    IF res.profile = NilProfile
    THEN Return("user.Grants", token, << >>, "", "ok", << >>, EmptyConnection)
    ELSE
    LET roleGrants ==
            IF res.profile.role_id # ""
            THEN <<Grant(ResourceId("role", res.profile.role_id), "member",
                         ResourceId(res.type, res.id))>>
            ELSE << >>
        ids == SelectSeq(res.profile.project_ids, LAMBDA p : p # "")
        projectGrants ==
            [i \in 1 .. Len(ids) |->
                Grant(ResourceId("project", ids[i]), "member", ResourceId(res.type, res.id))]
    IN  Return("user.Grants", token, roleGrants \o projectGrants, "", "ok", << >>,
               EmptyConnection)

RoleResources(nodes) ==
    [i \in 1 .. Len(nodes) |-> Resource("role", nodes[i].id, NoProfile)]

RoleList(w, token, run) ==
    LET resp == ListUserRoles(w, CursorArg(token), run)
    IN  IF resp.err # "ok"
        THEN Failed("role.List", token, "failed to list roles", resp.err, resp.sent)
        ELSE Return("role.List", token, RoleResources(resp.conn.nodes),
                    NextPageToken(resp.conn.pageInfo), "ok", resp.sent, resp.conn)

ProjectResources(nodes) ==
    [i \in 1 .. Len(nodes) |-> Resource("project", nodes[i].id, NoProfile)]

ProjectList(w, token, run) ==
    LET resp == ListProjects(w, CursorArg(token), run)
    IN  IF resp.err # "ok"
        THEN Failed("project.List", token, "failed to list projects", resp.err, resp.sent)
        ELSE Return("project.List", token, ProjectResources(resp.conn.nodes),
                    NextPageToken(resp.conn.pageInfo), "ok", resp.sent, resp.conn)

\* grants for every owner and champion, with or without an email
GrantsOfProjectKeepingAll(res, project) ==
    [i \in 1 .. Len(project.projectOwners) |->
        Grant(res, "owner", ResourceId("user", project.projectOwners[i].email))]
    \o [i \in 1 .. Len(project.securityChampions) |->
            Grant(res, "champion", ResourceId("user", project.securityChampions[i].email))]

\* the grants of one project: owners, then champions, those without email skipped
GrantsOfProject(res, project) ==
    LET owners    == SelectSeq(project.projectOwners, LAMBDA o : o.email # "")
        champions == SelectSeq(project.securityChampions, LAMBDA c : c.email # "")
    IN  [i \in 1 .. Len(owners) |-> Grant(res, "owner", ResourceId("user", owners[i].email))]
        \o [i \in 1 .. Len(champions) |->
                Grant(res, "champion", ResourceId("user", champions[i].email))]

\* a loop that takes the first project of the page, whatever its ID
ProjectGrantsOnPageFirst(res, nodes) ==
    IF nodes = << >> THEN << >> ELSE GrantsOfProject(res, nodes[1])

\* projectBuilder.Grants' loop: the first project of the page with the
\* requested ID, then break
ProjectGrantsOnPage(res, nodes) ==
    LET hits == {i \in 1 .. Len(nodes) : nodes[i].id = res.id}
    IN  IF hits = {} THEN << >>
        ELSE GrantsOfProject(res, nodes[CHOOSE i \in hits : \A j \in hits : i <= j])

\* a Grants that walks the collection itself until the project is found
RECURSIVE ProjectGrantsScanning(_, _, _, _)
ProjectGrantsScanning(w, res, token, run) ==
    LET resp == ListProjects(w, CursorArg(token), run)
        found == \E i \in 1 .. Len(resp.conn.nodes) : resp.conn.nodes[i].id = res.id
    IN  IF resp.err # "ok"
        THEN Failed("project.Grants", token, "failed to list projects for grants", resp.err, resp.sent)
        ELSE IF found \/ ~resp.conn.pageInfo.hasNextPage
        THEN Return("project.Grants", token, ProjectGrantsOnPage(res, resp.conn.nodes),
                    "", "ok", resp.sent, resp.conn)
        ELSE LET rest == ProjectGrantsScanning(w, res, resp.conn.pageInfo.endCursor, run)
             IN  [rest EXCEPT !.token = token, !.sent = resp.sent \o rest.sent]

ProjectGrants(w, res, token, run) ==
    LET resp == ListProjects(w, CursorArg(token), run)
    IN  IF resp.err # "ok"
        THEN Failed("project.Grants", token, "failed to list projects for grants", resp.err, resp.sent)
        ELSE Return("project.Grants", token, ProjectGrantsOnPage(res, resp.conn.nodes),
                    NextPageToken(resp.conn.pageInfo), "ok", resp.sent, resp.conn)

\* fmt.Sprintf("%s:%s", issue.ID, issue.EntitySnapshot.ExternalID)
InsightResourceID(issue) == issue.id \o ":" \o issue.externalId

\* a List that keeps the findings with status OPEN only
InsightResourcesOpenOnly(nodes) ==
    LET kept == SelectSeq(nodes, LAMBDA i : ~(i.externalId = "" \/ i.id = "")
                                            /\ i.status = "OPEN")
    IN  [i \in 1 .. Len(kept) |->
            Resource("security-insight", InsightResourceID(kept[i]), NoProfile)]

InsightResources(nodes) ==
    LET kept == SelectSeq(nodes, LAMBDA i : ~(i.externalId = "" \/ i.id = ""))
    IN  [i \in 1 .. Len(kept) |->
            Resource("security-insight", InsightResourceID(kept[i]), NoProfile)]

InsightList(w, token, run) ==
    LET resp == ListIssues(w, CursorArg(token), run)
    IN  IF resp.err # "ok"
        THEN Failed("security-insight.List", token, "failed to list issues", resp.err, resp.sent)
        ELSE Return("security-insight.List", token, InsightResources(resp.conn.nodes),
                    NextPageToken(resp.conn.pageInfo), "ok", resp.sent, resp.conn)

\* an insight Grants that grants the finding to every listed user
InsightGrantsToUsers(res, token) ==
    LET users == SelectSeq(world.users, LAMBDA u : u.email # "")
    IN  Return("security-insight.Grants", token,
               [i \in 1 .. Len(users) |->
                   Grant(res, "member", ResourceId("user", users[i].email))],
               "", "ok", << >>, EmptyConnection)

\* insightBuilder.Grants: nothing, whatever the finding and the page token
InsightGrants(res, token) == Nothing("security-insight.Grants", token)

\* the static entitlements: slugs, all grantable to users
\* static entitlements of the projects that declare no champion
ProjectStaticEntitlementSlugsWithoutChampion == <<"owner", "member">>

ProjectStaticEntitlementSlugs == <<"owner", "champion", "member">>
RoleStaticEntitlementSlugs == <<"member">>

(***************************************************************************)
(* The orchestrator: it invokes one operation at a time, starts a          *)
(* traversal with the empty page token and feeds each returned next-page   *)
(* token back to the same operation until the token is empty or the        *)
(* operation fails.                                                        *)
(***************************************************************************)
\* a traversal is given up after MaxCalls invocations
MaxCalls == 4

NoArg == Resource("none", "", NoProfile)
AnyTokens == {"", "c2"}
Range(seq) == {seq[i] : i \in 1 .. Len(seq)}
ListedOf(type) == {r \in listed : r.type = type}

Continuing(op, arg) == cur.phase = "more" /\ cur.op = op /\ cur.arg = arg
CanInvoke(op, arg) ==
    \/ cur.phase # "more"
    \/ Continuing(op, arg) /\ cur.calls < MaxCalls
TokenFor(op, arg) == IF Continuing(op, arg) THEN cur.token ELSE ""

\* whether this invocation repeats the one before it (same operation, resource
\* and page token, both successful), and whether it returned the same
Repeat(arg, r) ==
    IF ret.op = r.op /\ ret.token = r.token /\ cur.arg = arg /\ ret.err = "ok" /\ r.err = "ok"
    THEN IF ret.out = r.out /\ ret.next = r.next THEN "same" ELSE "differs"
    ELSE "no"

Advance(op, arg, r) ==
    [op    |-> op,
     arg   |-> arg,
     token |-> r.next,
     phase |-> IF r.err # "ok" THEN "failed" ELSE IF r.next = "" THEN "done" ELSE "more",
     calls |-> (IF Continuing(op, arg) THEN cur.calls ELSE 0) + 1,
     seen  |-> (IF Continuing(op, arg) THEN cur.seen ELSE << >>) \o r.nodes,
     emitted |-> (IF Continuing(op, arg) THEN cur.emitted ELSE << >>) \o r.out,
     repeat |-> Repeat(arg, r),
     transport |-> "none"]

Single(op, arg, r) ==
    [op |-> op, arg |-> arg, token |-> r.next, phase |-> "done", calls |-> 1, seen |-> << >>,
     emitted |-> r.out, repeat |-> Repeat(arg, r), transport |-> "none"]

SyncInit ==
    /\ world \in Worlds
    /\ cur = IdleWalk
    /\ ret = NoReturn
    /\ listed = {}

UserListOp ==
    /\ CanInvoke("user.List", NoArg)
    /\ \E run \in TransportRuns :
        LET r == UserList(world, TokenFor("user.List", NoArg), run)
        IN  /\ ret' = r
            /\ cur' = [Advance("user.List", NoArg, r) EXCEPT !.transport = graphQLRequest(run)]
            /\ listed' = listed \cup Range(r.out)
    /\ UNCHANGED <<world, bk, fn, inv>>
    /\ UNCHANGED transportVars

UserEntitlementsOp ==
    /\ cur.phase # "more"
    /\ \E res \in ListedOf("user"), token \in AnyTokens :
        /\ ret' = Nothing("user.Entitlements", token)
        /\ cur' = Single("user.Entitlements", res, ret')
    /\ UNCHANGED <<world, listed, bk, fn, inv>>
    /\ UNCHANGED transportVars

UserGrantsOp ==
    /\ cur.phase # "more"
    /\ \E listedRes \in ListedOf("user"), token \in AnyTokens :
       \E res \in {listedRes, WithoutProfile(listedRes)} :
        /\ ret' = UserGrants(res, token)
        /\ cur' = Single("user.Grants", res, ret')
    /\ UNCHANGED <<world, listed, bk, fn, inv>>
    /\ UNCHANGED transportVars

RoleListOp ==
    /\ CanInvoke("role.List", NoArg)
    /\ \E run \in TransportRuns :
        LET r == RoleList(world, TokenFor("role.List", NoArg), run)
        IN  /\ ret' = r
            /\ cur' = [Advance("role.List", NoArg, r) EXCEPT !.transport = graphQLRequest(run)]
            /\ listed' = listed \cup Range(r.out)
    /\ UNCHANGED <<world, bk, fn, inv>>
    /\ UNCHANGED transportVars

\* role List invoked with a page token it never handed out
RoleListAtOp ==
    /\ cur.phase # "more"
    /\ \E token \in AnyTokens \ {""}, run \in TransportRuns :
        LET r == RoleList(world, token, run)
        IN  /\ ret' = r
            /\ cur' = [Single("role.List at a given token", NoArg, r) EXCEPT
                          !.phase = IF r.err # "ok" THEN "failed" ELSE "done",
                          !.seen = r.nodes,
                          !.transport = graphQLRequest(run)]
            /\ listed' = listed \cup Range(r.out)
    /\ UNCHANGED <<world, bk, fn, inv>>
    /\ UNCHANGED transportVars

RoleStaticEntitlementsOp ==
    /\ cur.phase # "more"
    /\ \E token \in AnyTokens :
        /\ ret' = [Nothing("role.StaticEntitlements", token)
                      EXCEPT !.out = RoleStaticEntitlementSlugs]
        /\ cur' = Single("role.StaticEntitlements", NoArg, ret')
    /\ UNCHANGED <<world, listed, bk, fn, inv>>
    /\ UNCHANGED transportVars

RoleEntitlementsOp ==
    /\ cur.phase # "more"
    /\ \E res \in ListedOf("role"), token \in AnyTokens :
        /\ ret' = Nothing("role.Entitlements", token)
        /\ cur' = Single("role.Entitlements", res, ret')
    /\ UNCHANGED <<world, listed, bk, fn, inv>>
    /\ UNCHANGED transportVars

RoleGrantsOp ==
    /\ cur.phase # "more"
    /\ \E res \in ListedOf("role"), token \in AnyTokens :
        /\ ret' = RoleGrants(world, res, token)
        /\ cur' = Single("role.Grants", res, ret')
    /\ UNCHANGED <<world, listed, bk, fn, inv>>
    /\ UNCHANGED transportVars

ProjectListOp ==
    /\ CanInvoke("project.List", NoArg)
    /\ \E run \in TransportRuns :
        LET r == ProjectList(world, TokenFor("project.List", NoArg), run)
        IN  /\ ret' = r
            /\ cur' = [Advance("project.List", NoArg, r) EXCEPT !.transport = graphQLRequest(run)]
            /\ listed' = listed \cup Range(r.out)
    /\ UNCHANGED <<world, bk, fn, inv>>
    /\ UNCHANGED transportVars

ProjectStaticEntitlementsOp ==
    /\ cur.phase # "more"
    /\ \E token \in AnyTokens :
        /\ ret' = [Nothing("project.StaticEntitlements", token)
                      EXCEPT !.out = ProjectStaticEntitlementSlugs]
        /\ cur' = Single("project.StaticEntitlements", NoArg, ret')
    /\ UNCHANGED <<world, listed, bk, fn, inv>>
    /\ UNCHANGED transportVars

ProjectEntitlementsOp ==
    /\ cur.phase # "more"
    /\ \E res \in ListedOf("project"), token \in AnyTokens :
        /\ ret' = Nothing("project.Entitlements", token)
        /\ cur' = Single("project.Entitlements", res, ret')
    /\ UNCHANGED <<world, listed, bk, fn, inv>>
    /\ UNCHANGED transportVars

ProjectGrantsOp ==
    /\ \E res \in ListedOf("project"), run \in TransportRuns :
        /\ CanInvoke("project.Grants", res)
        /\ LET r == ProjectGrants(world, res, TokenFor("project.Grants", res), run)
           IN  /\ ret' = r
               /\ cur' = [Advance("project.Grants", res, r) EXCEPT
                             !.transport = graphQLRequest(run)]
    /\ UNCHANGED <<world, listed, bk, fn, inv>>
    /\ UNCHANGED transportVars

InsightListOp ==
    /\ CanInvoke("security-insight.List", NoArg)
    /\ \E run \in TransportRuns :
        LET r == InsightList(world, TokenFor("security-insight.List", NoArg), run)
        IN  /\ ret' = r
            /\ cur' = [Advance("security-insight.List", NoArg, r) EXCEPT !.transport = graphQLRequest(run)]
            /\ listed' = listed \cup Range(r.out)
    /\ UNCHANGED <<world, bk, fn, inv>>
    /\ UNCHANGED transportVars

InsightEntitlementsOp ==
    /\ cur.phase # "more"
    /\ \E res \in ListedOf("security-insight"), token \in AnyTokens :
        /\ ret' = Nothing("security-insight.Entitlements", token)
        /\ cur' = Single("security-insight.Entitlements", res, ret')
    /\ UNCHANGED <<world, listed, bk, fn, inv>>
    /\ UNCHANGED transportVars

InsightGrantsOp ==
    /\ cur.phase # "more"
    /\ \E res \in ListedOf("security-insight"), token \in AnyTokens :
        /\ ret' = InsightGrants(res, token)
        /\ cur' = Single("security-insight.Grants", res, ret')
    /\ UNCHANGED <<world, listed, bk, fn, inv>>
    /\ UNCHANGED transportVars

SyncNext ==
    \/ UserListOp
    \/ UserEntitlementsOp
    \/ UserGrantsOp
    \/ RoleListOp
    \/ RoleListAtOp
    \/ RoleStaticEntitlementsOp
    \/ RoleEntitlementsOp
    \/ RoleGrantsOp
    \/ ProjectListOp
    \/ ProjectStaticEntitlementsOp
    \/ ProjectEntitlementsOp
    \/ ProjectGrantsOp
    \/ InsightListOp
    \/ InsightEntitlementsOp
    \/ InsightGrantsOp

SyncOnlyInit == SyncInit /\ TransportIdle /\ BackoffIdle /\ FnIdle /\ InvIdle

SpecSync == SyncOnlyInit /\ [][SyncNext]_vars

\* the orchestrator keeps feeding the returned token back until it is empty
ContinueWalk ==
    /\ cur.phase = "more"
    /\ \/ UserListOp
       \/ RoleListOp
       \/ ProjectListOp
       \/ InsightListOp
       \/ ProjectGrantsOp

SpecSyncFair == SpecSync /\ WF_vars(ContinueWalk)

(***************************************************************************)
(* The insight mapper's string functions.  An external ID is the sequence  *)
(* of its characters.                                                      *)
(***************************************************************************)
\* an external ID is put together from at most MaxFragments fragments
MaxFragments == 3

\* strings.HasPrefix, strings.Contains
HasPrefix(str, prefix) == Len(str) >= Len(prefix) /\ SubSeq(str, 1, Len(prefix)) = prefix
Contains(str, substr) ==
    \E i \in 0 .. (Len(str) - Len(substr)) : SubSeq(str, i + 1, i + Len(substr)) = substr

\* "arn:aws:", "/subscriptions/", "//", "projects/", "/"
ArnAws ==
    <<"a", "r", "n", ":", "a", "w", "s", ":">>
Subscriptions ==
    <<"/", "s", "u", "b", "s", "c", "r", "i", "p", "t", "i", "o", "n", "s",
      "/">>
SlashSlash == <<"/", "/">>
ProjectsSlash ==
    <<"p", "r", "o", "j", "e", "c", "t", "s", "/">>
Slash == <<"/">>

\* a detectAppHint that looks for "projects/" before "/subscriptions/"
detectAppHintProjectsFirst(externalID) ==
    IF HasPrefix(externalID, ArnAws) THEN "aws"
    ELSE IF Contains(externalID, ProjectsSlash) /\ Contains(externalID, Slash) THEN "gcp"
    ELSE IF HasPrefix(externalID, Subscriptions) THEN "azure"
    ELSE IF HasPrefix(externalID, SlashSlash) THEN "gcp"
    ELSE "unknown"

\* the switch of detectAppHint, its cases in order
detectAppHint(externalID) ==
    IF HasPrefix(externalID, ArnAws) THEN "aws"
    ELSE IF HasPrefix(externalID, Subscriptions) THEN "azure"
    ELSE IF HasPrefix(externalID, SlashSlash) THEN "gcp"
    ELSE IF Contains(externalID, ProjectsSlash) /\ Contains(externalID, Slash) THEN "gcp"
    ELSE "unknown"

\* "arn:aws:s3:::bucket"
AwsBucket ==
    <<"a", "r", "n", ":", "a", "w", "s", ":", "s", "3", ":", ":", ":", "b",
      "u", "c", "k", "e", "t">>
\* "/subscriptions/abc/resourceGroups/x"
AzureGroup ==
    <<"/", "s", "u", "b", "s", "c", "r", "i", "p", "t", "i", "o", "n", "s",
      "/", "a", "b", "c", "/", "r", "e", "s", "o", "u", "r", "c", "e", "G",
      "r", "o", "u", "p", "s", "/", "x">>
\* "//compute.googleapis.com/projects/p/zones/z/instances/i"
GcpInstance ==
    <<"/", "/", "c", "o", "m", "p", "u", "t", "e", ".", "g", "o", "o", "g",
      "l", "e", "a", "p", "i", "s", ".", "c", "o", "m", "/", "p", "r", "o",
      "j", "e", "c", "t", "s", "/", "p", "/", "z", "o", "n", "e", "s", "/",
      "z", "/", "i", "n", "s", "t", "a", "n", "c", "e", "s", "/", "i">>
\* "unrecognized-string"
Unrecognized ==
    <<"u", "n", "r", "e", "c", "o", "g", "n", "i", "z", "e", "d", "-", "s",
      "t", "r", "i", "n", "g">>

Fragments == {ArnAws, Subscriptions, Slash, ProjectsSlash, <<"x">>}
RECURSIVE Concat(_)
Concat(parts) == IF parts = << >> THEN << >> ELSE Head(parts) \o Concat(Tail(parts))
ExternalIDs ==
    {AwsBucket, AzureGroup, GcpInstance, Unrecognized}
        \cup {Concat(parts) : parts \in UNION {[1 .. k -> Fragments] : k \in 0 .. MaxFragments}}

HintInit == \E id \in ExternalIDs :
    fn = [name |-> "detectAppHint", input |-> id, out |-> << >>, applied |-> FALSE]

ApplyDetectAppHint ==
    /\ fn.name = "detectAppHint"
    /\ ~fn.applied
    /\ fn' = [fn EXCEPT !.out = detectAppHint(fn.input), !.applied = TRUE]
    /\ UNCHANGED transportVars
    /\ UNCHANGED mapperVars
    /\ UNCHANGED <<bk, inv>>

HintOnlyInit == HintInit /\ TransportIdle /\ BackoffIdle /\ InvIdle /\ MapperIdle
HintNext == ApplyDetectAppHint
SpecHint == HintOnlyInit /\ [][HintNext]_vars

\* findings as List keeps them: an ID and an external ID, neither empty
FindingIDs == {"f1", "a", "a:b"}
FindingExternalIDs == {"c", "b:c", "arn:aws:iam::1:user/a"}
Findings == {Issue(id, "HIGH", ext) : id \in FindingIDs, ext \in FindingExternalIDs}

ResourceIDInit == \E a \in Findings, b \in Findings :
    fn = [name |-> "resourceID", input |-> <<a, b>>, out |-> << >>, applied |-> FALSE]

\* the resource IDs List gives to two findings
ApplyResourceID ==
    /\ fn.name = "resourceID"
    /\ ~fn.applied
    /\ fn' = [fn EXCEPT !.out = <<InsightResourceID(fn.input[1]), InsightResourceID(fn.input[2])>>,
                        !.applied = TRUE]
    /\ UNCHANGED transportVars
    /\ UNCHANGED mapperVars
    /\ UNCHANGED <<bk, inv>>

ResourceIDOnlyInit == ResourceIDInit /\ TransportIdle /\ BackoffIdle /\ InvIdle /\ MapperIdle
ResourceIDNext == ApplyResourceID
SpecResourceID == ResourceIDOnlyInit /\ [][ResourceIDNext]_vars

(***************************************************************************)
(* Concurrent invocations.  The orchestrator runs mapper operations on two *)
(* goroutines; an operation is a sequence of steps on its own locals       *)
(* (cursor, resp, the records built): take the page token, make the list   *)
(* call, map the response, return.  The builders hold nothing but the      *)
(* client, and the client nothing that an operation writes.                *)
(***************************************************************************)
ConcurrentWorld ==
    [DefaultWorld EXCEPT
        !.users = <<User("u1", "a@x", "r1", <<"p1">>),
                    User("u2", "", "r1", <<"p1", "p2">>),
                    User("u4", "c@x", "r2", <<"", "p2">>)>>,
        !.projects =
            <<Project("p1", <<Person("u1", "a@x"), Person("u2", "")>>, <<Person("u3", "b@x")>>),
              Project("p2", << >>, <<Person("u2", ""), Person("u1", "a@x")>>),
              Project("p3", <<Person("u4", "c@x"), Person("u3", "b@x")>>,
                      <<Person("u1", "a@x")>>)>>]

ConcurrentRuns == {<<ValidBody>>, <<Outcome("ok", "ok", StatusOK, "errors")>>}

\* the operations the orchestrator may invoke, each with its resource
Invocables ==
    {<<op, NoArg>> : op \in {"user.List", "role.List", "project.List", "security-insight.List"}}
    \cup {<<"project.Grants", Resource("project", id, NoProfile)>> : id \in {"p1", "p3"}}
    \cup {<<"user.Grants", res>> : res \in Range(UserResources(ConcurrentWorld.users))}

\* a builder that keeps the cursor in a field shared by its invocations: a
\* list call sends the cursor the other goroutine has set, if that has set one
CursorShared(g) ==
    LET others == {h \in Goroutines \ {g} : inv[h].pc \in {"listing", "received"}}
    IN  IF others = {} THEN inv[g].cursor ELSE inv[CHOOSE h \in others : TRUE].cursor

\* the local variable cursor of the invocation
CursorLocal(g) == inv[g].cursor

\* the client call the operation makes
ListCall(op, cursor, run) ==
    CASE op = "user.List" -> ListUsers(world, cursor, run)
      [] op = "role.List" -> ListUserRoles(world, cursor, run)
      [] op \in {"project.List", "project.Grants"} -> ListProjects(world, cursor, run)
      [] op = "security-insight.List" -> ListIssues(world, cursor, run)

\* what the operation makes of the response
MapResponse(op, arg, token, resp) ==
    IF resp.err # "ok"
    THEN Failed(op, token,
                CASE op = "user.List" -> "failed to list users"
                  [] op = "role.List" -> "failed to list roles"
                  [] op = "project.List" -> "failed to list projects"
                  [] op = "project.Grants" -> "failed to list projects for grants"
                  [] op = "security-insight.List" -> "failed to list issues",
                resp.err, resp.sent)
    ELSE Return(op, token,
                CASE op = "user.List" -> UserResources(resp.conn.nodes)
                  [] op = "role.List" -> RoleResources(resp.conn.nodes)
                  [] op = "project.List" -> ProjectResources(resp.conn.nodes)
                  [] op = "project.Grants" -> ProjectGrantsOnPage(arg, resp.conn.nodes)
                  [] op = "security-insight.List" -> InsightResources(resp.conn.nodes),
                NextPageToken(resp.conn.pageInfo), "ok", resp.sent, resp.conn)

ConcurrentInit ==
    /\ world = ConcurrentWorld
    /\ cur = IdleWalk
    /\ ret = NoReturn
    /\ listed = {}
    /\ InvIdle

Invoke(g) ==
    /\ inv[g].pc = "idle"
    /\ \E oa \in Invocables, token \in AnyTokens, run \in ConcurrentRuns :
        inv' = [inv EXCEPT ![g] =
                   [pc |-> "invoked", op |-> oa[1], arg |-> oa[2], token |-> token, run |-> run,
                    cursor |-> NoCursor, resp |-> [err |-> "none"], ret |-> NoReturn]]
    /\ UNCHANGED <<world, cur, ret, listed, bk, fn>>
    /\ UNCHANGED transportVars

\* var cursor *string; if attr.PageToken.Token != "" { cursor = &attr.PageToken.Token }
TakeToken(g) ==
    /\ inv[g].pc = "invoked"
    /\ inv[g].op # "user.Grants"
    /\ inv' = [inv EXCEPT ![g].cursor = CursorArg(inv[g].token), ![g].pc = "listing"]
    /\ UNCHANGED <<world, cur, ret, listed, bk, fn>>
    /\ UNCHANGED transportVars

\* resp, err := client.List...(ctx, cursor)
Receive(g) ==
    /\ inv[g].pc = "listing"
    /\ inv' = [inv EXCEPT ![g].resp = ListCall(inv[g].op, CursorLocal(g), inv[g].run),
                          ![g].pc = "received"]
    /\ UNCHANGED <<world, cur, ret, listed, bk, fn>>
    /\ UNCHANGED transportVars

\* the loop over resp.Nodes and the return
Finish(g) ==
    /\ inv[g].pc = "received"
    /\ inv' = [inv EXCEPT ![g].ret = MapResponse(inv[g].op, inv[g].arg, inv[g].token, inv[g].resp),
                          ![g].pc = "returned"]
    /\ UNCHANGED <<world, cur, ret, listed, bk, fn>>
    /\ UNCHANGED transportVars

\* userBuilder.Grants, which makes no list call
FinishUserGrants(g) ==
    /\ inv[g].pc = "invoked"
    /\ inv[g].op = "user.Grants"
    /\ inv' = [inv EXCEPT ![g].ret = UserGrants(inv[g].arg, inv[g].token), ![g].pc = "returned"]
    /\ UNCHANGED <<world, cur, ret, listed, bk, fn>>
    /\ UNCHANGED transportVars

\* the orchestrator takes the result; the goroutine is free for the next invocation
Collect(g) ==
    /\ inv[g].pc = "returned"
    /\ inv' = [inv EXCEPT ![g] = NoInvocation]
    /\ UNCHANGED <<world, cur, ret, listed, bk, fn>>
    /\ UNCHANGED transportVars

InvokeAny == \E g \in Goroutines : Invoke(g)
TakeTokenAny == \E g \in Goroutines : TakeToken(g)
ReceiveAny == \E g \in Goroutines : Receive(g)
FinishAny == \E g \in Goroutines : Finish(g)
FinishUserGrantsAny == \E g \in Goroutines : FinishUserGrants(g)
CollectAny == \E g \in Goroutines : Collect(g)

ConcurrentNext ==
    \/ InvokeAny
    \/ TakeTokenAny
    \/ ReceiveAny
    \/ FinishAny
    \/ FinishUserGrantsAny
    \/ CollectAny

ConcurrentOnlyInit == ConcurrentInit /\ TransportIdle /\ BackoffIdle /\ FnIdle
SpecConcurrent == ConcurrentOnlyInit /\ [][ConcurrentNext]_vars

(***************************************************************************)
(* The configuration: four string fields, each declared WithRequired(true) *)
(* and validated with field.Validate; wiz.NewClient checks them once more. *)
(***************************************************************************)
ConfigFields == {"wiz-api-url", "wiz-client-id", "wiz-client-secret", "wiz-auth-endpoint"}
ConfigValues == {"", "https://api.wiz.io/graphql", "test"}

\* a schema in which the client secret is not required
RequiredFieldsWithoutSecret == {"wiz-api-url", "wiz-client-id", "wiz-auth-endpoint"}

\* the fields declared field.WithRequired(true)
RequiredFields == {"wiz-api-url", "wiz-client-id", "wiz-client-secret", "wiz-auth-endpoint"}

\* field.Validate(Config, cfg): a required string field must not be empty
ValidateConfig(cfg) == IF \E f \in RequiredFields : cfg[f] = "" THEN "error" ELSE "ok"

\* wiz.NewClient's check of its four parameters
NewClient(cfg) ==
    IF cfg["wiz-api-url"] = "" \/ cfg["wiz-client-id"] = "" \/ cfg["wiz-client-secret"] = ""
       \/ cfg["wiz-auth-endpoint"] = ""
    THEN "all authentication parameters are required"
    ELSE "ok"

ConfigInit == \E cfg \in [ConfigFields -> ConfigValues] :
    fn = [name |-> "config", input |-> cfg, out |-> << >>, applied |-> FALSE]

ApplyValidate ==
    /\ fn.name = "config"
    /\ ~fn.applied
    /\ fn' = [fn EXCEPT !.out = [validate |-> ValidateConfig(fn.input),
                                 newClient |-> NewClient(fn.input)],
                        !.applied = TRUE]
    /\ UNCHANGED transportVars
    /\ UNCHANGED mapperVars
    /\ UNCHANGED <<bk, inv>>

ConfigOnlyInit == ConfigInit /\ TransportIdle /\ BackoffIdle /\ InvIdle /\ MapperIdle
ConfigNext == ApplyValidate
SpecConfig == ConfigOnlyInit /\ [][ConfigNext]_vars

(***************************************************************************)
(* Properties of the transport.                                            *)
(***************************************************************************)
IsRateLimited(o) == o.do = "ok" /\ o.read = "ok" /\ o.status = StatusTooManyRequests
IsRetryable(o) == o.do = "error" \/ IsRateLimited(o)
IsGraphQLErrors(o) ==
    o.do = "ok" /\ o.read = "ok" /\ o.status = StatusOK /\ o.body = "errors"
IsValid(o) ==
    o.do = "ok" /\ o.read = "ok" /\ o.status = StatusOK /\ o.body = "valid"
IsFatalResponse(o) ==
    /\ o.do = "ok" /\ o.read = "ok"
    /\ \/ o.status # StatusTooManyRequests /\ ~(o.status >= 200 /\ o.status <= 299)
       \/ o.status = StatusOK /\ o.body = "malformed"
AllRateLimited ==
    /\ Len(outcomes) >= 1
    /\ \A i \in 1 .. Len(outcomes) : IsRateLimited(outcomes[i])

\* C1 as stated: when every attempt is answered with HTTP 429 the call is over
\* after 5 such responses and a 6th HTTP request is never sent.
C1_FiveAttemptsOnly ==
    AllRateLimited =>
        /\ requests <= 5
        /\ (Len(outcomes) = 5 => pc = "done" /\ result = "err_rate_limit")

\* C1 amended: retrying is bounded to maxRetries = 5 retries after the first
\* attempt.  When every attempt is answered with HTTP 429 the call keeps
\* retrying through the 5th response, ends with the rate-limit error on the
\* 6th, and a 7th HTTP request is never sent by any call.
C1_SixAttemptsOnly ==
    /\ requests <= maxRetries + 1
    /\ AllRateLimited =>
        /\ (Len(outcomes) <= maxRetries => pc \in {"sleep", "do", "inflight"})
        /\ (Len(outcomes) = maxRetries + 1 => pc = "done" /\ result = "err_rate_limit")

C1_Witness ==
    AllRateLimited /\ Len(outcomes) = 6 /\ requests = 6 /\ pc = "done"

CappedBackoff(k) == Min(baseDelay * (2 ^ k), maxDelay)

\* C2 as stated: for k in 0..5 the delay of attempt k lies within
\* [0.9, 1.1] * base * 2^k clamped to the cap, so that no returned delay
\* exceeds 32s.
C2_DelayClampedToCap ==
    bk.delay # -1 /\ bk.k <= 5 =>
        /\ bk.delay * 10 >= 9 * baseDelay * (2 ^ bk.k)
        /\ bk.delay * 10 <= Min(11 * baseDelay * (2 ^ bk.k), 10 * maxDelay)
        /\ bk.delay <= maxDelay

\* C2 amended: the delay of attempt k lies within [0.9, 1.1] * min(base * 2^k, cap):
\* the jitter is applied after the cap, so attempt 0 is in [0.9s, 1.1s] and
\* attempt 5 is in [28.8s, 35.2s]; a delay may exceed the cap by up to 10%.
C2_DelayWithinJitterOfCapped ==
    bk.delay # -1 =>
        /\ bk.delay * 10 >= 9 * CappedBackoff(bk.k)
        /\ bk.delay * 10 <= 11 * CappedBackoff(bk.k)
        /\ (bk.k = 0 => bk.delay >= 900 /\ bk.delay <= 1100)
        /\ (bk.k = 5 => bk.delay >= 28800 /\ bk.delay <= 35200)

C2_Witness ==
    bk.k = 5 /\ bk.delay > maxDelay

\* C3: a context cancelled while an HTTP attempt is in flight ends the call
\* at once with the cancellation error: no sleep and no further attempt.
C3_CancelInFlightReturnsAtOnce ==
    cancelAt.phase = "inflight" =>
        /\ pc \in {"inflight", "done"}
        /\ requests = cancelAt.requests
        /\ Len(sleeps) = cancelAt.sleeps

\* C4: an HTTP 200 response carrying a non-empty errors array is never
\* retried: it is the last response of the call, the call has failed with
\* the GraphQL error, and no request or sleep followed it.
C4_GraphQLErrorsNotRetried ==
    \A i \in 1 .. Len(outcomes) :
        IsGraphQLErrors(outcomes[i]) =>
            /\ i = Len(outcomes)
            /\ pc = "done"
            /\ result = "err_graphql"
            /\ requests = i
            /\ Len(sleeps) = i - 1

C4_Witness ==
    /\ Len(outcomes) = 3
    /\ IsGraphQLErrors(outcomes[3])
    /\ pc = "done"

\* C5: a non-429 non-2xx status, or an HTTP 200 body that is not a JSON
\* envelope, is never retried: it is the last response of the call, the call
\* has returned an error, and no request or sleep followed it.
C5_FatalResponsesNotRetried ==
    \A i \in 1 .. Len(outcomes) :
        IsFatalResponse(outcomes[i]) =>
            /\ i = Len(outcomes)
            /\ pc = "done"
            /\ result = (IF outcomes[i].status = StatusOK
                         THEN "err_unmarshal" ELSE "err_status")
            /\ requests = i
            /\ Len(sleeps) = i - 1

C5_Witness ==
    /\ Len(outcomes) = 2
    /\ outcomes[2].status = 503
    /\ pc = "done"
    /\ result = "err_status"

\* C6: every call terminates; a network failure or a 429 is retried after a
\* sleep while the budget lasts, a valid 200 body ends the call with success,
\* and once maxRetries + 1 attempts have failed, whatever the mix of network
\* failures and 429s, the call returns a fatal error.
C6_CallTerminates ==
    /\ <>(pc = "done")
    /\ [](requests <= maxRetries + 1)
    /\ [](outcomes # << >> =>
            LET n == Len(outcomes) IN
            /\ (IsRetryable(outcomes[n]) /\ n <= maxRetries =>
                    /\ pc \in {"sleep", "do", "inflight"}
                    /\ Len(sleeps) \in {n - 1, n})
            /\ (IsRetryable(outcomes[n]) /\ n = maxRetries + 1 =>
                    pc = "done" /\ result \in {"err_execute", "err_rate_limit"})
            /\ (IsValid(outcomes[n]) => pc = "done" /\ result = "ok"))

C6_Witness ==
    /\ pc = "done"
    /\ Len(outcomes) = maxRetries + 1
    /\ \E i, j \in 1 .. Len(outcomes) :
        outcomes[i].do = "error" /\ IsRateLimited(outcomes[j])

(***************************************************************************)
(* Properties of pagination and of the user mapper.                        *)
(***************************************************************************)
PaginatedOps ==
    {"user.List", "role.List", "project.List", "security-insight.List", "project.Grants"}
ListOps == {"user.List", "role.List", "project.List", "security-insight.List"}

C8_AtMostOneListCall ==
    /\ Len(ret.sent) <= 1
    /\ ret.op \notin PaginatedOps => ret.sent = << >>
    /\ (ret.op \in PaginatedOps \ {"role.List"}) => Len(ret.nodes) <= PageSize

\* project Grants got a page without the project while more pages exist, and
\* returned after that single call
C8_Witness ==
    /\ ret.op = "project.Grants"
    /\ ret.err = "ok"
    /\ ret.pageInfo.hasNextPage
    /\ \A i \in 1 .. Len(ret.nodes) : ret.nodes[i].id # cur.arg.id
    /\ ret.out = << >>
    /\ Len(ret.sent) = 1

CollectionOf(op) ==
    CASE op = "user.List" -> world.users
      [] op = "role.List" -> world.roles
      [] op = "project.List" -> world.projects
      [] op = "security-insight.List" -> world.issues
      [] OTHER -> << >>
IsPrefix(a, b) == Len(a) <= Len(b) /\ a = SubSeq(b, 1, Len(a))

\* C9: in a traversal driven by the orchestrator, List sends the token it is
\* given as the cursor (none for the empty token), the pages it has received
\* so far are the collection's records in order without gap or repetition,
\* a finished traversal has received the whole collection, and a traversal
\* under way comes to an end
C9_TraversalVisitsEveryPageOnce ==
    /\ [][cur'.op \in ListOps =>
            /\ ret'.op = cur'.op
            /\ ret'.token = TokenFor(cur'.op, NoArg)
            /\ ret'.sent = <<IF ret'.token = "" THEN NoCursor ELSE ret'.token>>]_vars
    /\ [](cur.op \in ListOps /\ cur.phase \in {"more", "done"} =>
            IsPrefix(cur.seen, CollectionOf(cur.op)))
    /\ [](cur.op \in ListOps /\ cur.phase = "done" =>
            ret.next = "" /\ cur.seen = CollectionOf(cur.op))
    /\ (cur.op \in ListOps /\ cur.phase = "more") ~> (cur.phase \in {"done", "failed"})

\* a user traversal of two pages has finished with every user received
C9_Witness ==
    /\ cur.op = "user.List"
    /\ cur.phase = "done"
    /\ cur.calls = 2
    /\ ret.token # ""
    /\ ret.sent = <<ret.token>>
    /\ Len(cur.seen) > PageSize
    /\ cur.seen = world.users

RECURSIVE WithEmail(_)
WithEmail(nodes) ==
    IF nodes = << >> THEN << >>
    ELSE IF Head(nodes).email = "" THEN WithEmail(Tail(nodes))
    ELSE <<Head(nodes).email>> \o WithEmail(Tail(nodes))
EmailLessCount(nodes) == Cardinality({i \in 1 .. Len(nodes) : nodes[i].email = ""})
People ==
    Range(world.users)
        \cup UNION {Range(world.projects[i].projectOwners) \cup
                      Range(world.projects[i].securityChampions) :
                          i \in 1 .. Len(world.projects)}
EmailLessIds == {p.id : p \in {q \in People : q.email = ""}}

\* C10: user List returns one resource per user of the page that has an
\* email, in the page's order, fails only when the transport failed, and no
\* grant of user Grants or project Grants names a user without an email
C10_EmailLessUsersSkipped ==
    /\ ret.op = "user.List" =>
        /\ ret.err = "ok" <=> ret.cause = "ok"
        /\ Len(ret.out) = Len(ret.nodes) - EmailLessCount(ret.nodes)
        /\ [i \in 1 .. Len(ret.out) |-> ret.out[i].id] = WithEmail(ret.nodes)
    /\ ret.op \in {"user.Grants", "project.Grants"} =>
        \A i \in 1 .. Len(ret.out) :
            /\ ret.out[i].principal.type = "user"
            /\ ret.out[i].principal.id # ""
            /\ ret.out[i].principal.id \notin EmailLessIds

\* a page of two users, one of them without an email, gave one resource, and
\* user Grants has emitted grants for it
C10_Witness ==
    /\ Len(world.users) = 2
    /\ \E i \in 1 .. 2 : world.users[i].email = ""
    /\ Cardinality(ListedOf("user")) = 1
    /\ ret.op = "user.Grants"
    /\ ret.out # << >>

(***************************************************************************)
(* Properties of the resources and grants the mappers emit.                *)
(***************************************************************************)
RequestedProjectsOn(nodes) ==
    {nodes[i] : i \in {j \in 1 .. Len(nodes) : nodes[j].id = cur.arg.id}}
StaffOf(project) == Range(project.projectOwners) \cup Range(project.securityChampions)

\* C11: every resource of user List is identified by the non-empty email of
\* an upstream record of the page, never by an upstream user ID, and every
\* principal of a project grant is (user, email) of an owner or champion of
\* the requested project
C11_EmailIsTheKey ==
    /\ ret.op = "user.List" =>
        \A i \in 1 .. Len(ret.out) :
            /\ ret.out[i].type = "user"
            /\ ret.out[i].id # ""
            /\ \E j \in 1 .. Len(ret.nodes) : ret.out[i].id = ret.nodes[j].email
            /\ \A j \in 1 .. Len(ret.nodes) : ret.out[i].id # ret.nodes[j].id
    /\ ret.op = "project.Grants" =>
        \A i \in 1 .. Len(ret.out) :
            /\ \E project \in RequestedProjectsOn(ret.nodes) :
                   \E person \in StaffOf(project) :
                       /\ person.email # ""
                       /\ ret.out[i].principal = ResourceId("user", person.email)
            /\ \A project \in RequestedProjectsOn(ret.nodes) :
                   \A person \in StaffOf(project) : ret.out[i].principal.id # person.id

\* users have been listed under their emails and project Grants has emitted
\* grants for a project that has owners or champions
C11_Witness ==
    /\ \E r \in ListedOf("user") : \E i \in 1 .. Len(world.users) : r.id = world.users[i].email
    /\ ret.op = "project.Grants"
    /\ Len(ret.out) >= 2

UsersWithEmail(email) == {u \in Range(world.users) : u.email = email}
RoleMembership(u) ==
    IF u.effectiveRole = "" THEN {}
    ELSE {[resource |-> [type |-> "role", id |-> u.effectiveRole], slug |-> "member",
           principal |-> [type |-> "user", id |-> u.email]]}
ProjectMemberships(u) ==
    {[resource |-> [type |-> "project", id |-> p], slug |-> "member",
      principal |-> [type |-> "user", id |-> u.email]] :
        p \in Range(u.effectiveAssignedProjects) \ {""}}

Unpopulated(profile) ==
    \/ profile = NilProfile
    \/ profile.role_id = "" /\ profile.project_ids = << >>

\* C13: user Grants on a resource that has no profile, or whose profile has
\* neither a role nor projects, returns no grants and no error
C13_GrantsDegradeGracefully ==
    (ret.op = "user.Grants" /\ Unpopulated(cur.arg.profile)) =>
        /\ ret.err = "ok"
        /\ ret.cause = "ok"
        /\ ret.out = << >>

\* Grants has run on the listed resource of a user without role and projects
C13_Witness ==
    /\ ret.op = "user.Grants"
    /\ cur.arg \in listed
    /\ cur.arg.profile # NilProfile
    /\ Unpopulated(cur.arg.profile)
    /\ ret.out = << >>
    /\ ret.err = "ok"

ProfileIds(profile) ==
    IF profile = NilProfile THEN {}
    ELSE {profile.role_id} \cup Range(profile.project_ids)

\* C14: user Grants makes no list call and receives no upstream page, whatever
\* the resource and the page token; its grants name only what the resource's
\* profile holds, and it returns no next-page token
C14_UserGrantsStayLocal ==
    ret.op = "user.Grants" =>
        /\ ret.sent = << >>
        /\ ret.nodes = << >>
        /\ ret.next = ""
        /\ \A i \in 1 .. Len(ret.out) :
            /\ ret.out[i].resource.id \in ProfileIds(cur.arg.profile)
            /\ ret.out[i].principal = [type |-> cur.arg.type, id |-> cur.arg.id]

\* Grants was called with a non-empty page token on a resource with a role and
\* a project, and returned their grants without a list call
C14_Witness ==
    /\ ret.op = "user.Grants"
    /\ ret.token # ""
    /\ Len(ret.out) >= 2
    /\ ret.sent = << >>
    /\ ret.next = ""

GrantOps == {"user.Grants", "role.Grants", "project.Grants", "security-insight.Grants"}
RoleGrantsIn(out) == {i \in 1 .. Len(out) : out[i].resource.type = "role"}

C16_RolesAreOnePage ==
    (ret.op = "role.List" /\ ret.err = "ok") =>
        /\ Len(ret.out) = Len(world.roles)
        /\ \A i \in 1 .. Len(ret.out) :
               ret.out[i].type = "role" /\ ret.out[i].id = world.roles[i].id
        /\ ~ret.pageInfo.hasNextPage
        /\ ret.next = ""
        /\ ret.sent = <<NoCursor>>

\* role List was called with a non-empty page token and returned every role
C16_Witness ==
    /\ ret.op = "role.List"
    /\ ret.err = "ok"
    /\ ret.token # ""
    /\ Len(world.roles) >= 2
    /\ Len(ret.out) = Len(world.roles)
    /\ ret.next = ""

RequestedProjects == {i \in 1 .. Len(world.projects) : world.projects[i].id = cur.arg.id}
WithEmailAt(people) == {i \in 1 .. Len(people) : people[i].email # ""}
GrantsAs(slug, email) ==
    {i \in 1 .. Len(cur.emitted) :
        cur.emitted[i] = [resource |-> [type |-> "project", id |-> cur.arg.id],
                          slug |-> slug,
                          principal |-> [type |-> "user", id |-> email]]}

\* C17: a finished traversal of project Grants for a project whose ID occurs
\* once upstream has emitted one grant per owner with an email and one per
\* champion with an email, each on the requested project with (user, email)
\* as principal, and no other grant
C17_ProjectGrantsPerOwnerAndChampion ==
    (cur.op = "project.Grants" /\ cur.phase = "done" /\ Cardinality(RequestedProjects) = 1) =>
        \A p \in RequestedProjects :
            LET project == world.projects[p]
            IN  /\ Len(cur.emitted) =
                       Cardinality(WithEmailAt(project.projectOwners))
                       + Cardinality(WithEmailAt(project.securityChampions))
                /\ \A i \in WithEmailAt(project.projectOwners) :
                       Cardinality(GrantsAs("owner", project.projectOwners[i].email)) = 1
                /\ \A i \in WithEmailAt(project.securityChampions) :
                       Cardinality(GrantsAs("champion", project.securityChampions[i].email)) = 1

\* a two-page traversal for a project with two owners and one champion, all
\* with an email, has finished with three grants
C17_Witness ==
    /\ cur.op = "project.Grants"
    /\ cur.phase = "done"
    /\ cur.calls = 2
    /\ \E p \in RequestedProjects :
        /\ Cardinality(WithEmailAt(world.projects[p].projectOwners)) = 2
        /\ Cardinality(WithEmailAt(world.projects[p].securityChampions)) = 1
    /\ Len(cur.emitted) = 3

Hinted == fn.name = "detectAppHint" /\ fn.applied

\* C19: detectAppHint answers aws, azure, gcp or unknown for every external
\* ID: aws for the prefix "arn:aws:", else azure for the prefix
\* "/subscriptions/", else gcp for the prefix "//" or an occurrence of
\* "projects/", else unknown; the four sample IDs give aws, azure, gcp, unknown
C19_DetectAppHintRules ==
    Hinted =>
        /\ fn.out \in {"aws", "azure", "gcp", "unknown"}
        /\ fn.out = "aws" <=> HasPrefix(fn.input, ArnAws)
        /\ fn.out = "azure" <=>
               ~HasPrefix(fn.input, ArnAws) /\ HasPrefix(fn.input, Subscriptions)
        /\ fn.out = "gcp" <=>
               /\ ~HasPrefix(fn.input, ArnAws)
               /\ ~HasPrefix(fn.input, Subscriptions)
               /\ HasPrefix(fn.input, SlashSlash) \/ Contains(fn.input, ProjectsSlash)
        /\ fn.input = AwsBucket => fn.out = "aws"
        /\ fn.input = AzureGroup => fn.out = "azure"
        /\ fn.input = GcpInstance => fn.out = "gcp"
        /\ fn.input = Unrecognized => fn.out = "unknown"

\* an ID that starts with "/subscriptions/" and holds "projects/" was
\* classified: the earlier rule won
C19_Witness ==
    /\ Hinted
    /\ HasPrefix(fn.input, Subscriptions)
    /\ Contains(fn.input, ProjectsSlash)
    /\ fn.out = "azure"

SamePair(a, b) == a.id = b.id /\ a.externalId = b.externalId

\* C20: two findings get the same resource ID exactly when they have the
\* same finding ID and the same external ID
C20_ResourceIDsUnique ==
    (fn.name = "resourceID" /\ fn.applied) =>
        (fn.out[1] = fn.out[2] <=> SamePair(fn.input[1], fn.input[2]))

(***************************************************************************)
(* Further properties of the mappers.                                      *)
(***************************************************************************)
InsightLeafOps == {"security-insight.Entitlements", "security-insight.Grants"}

\* C21: insight Entitlements and insight Grants return nothing (no record, no
\* next-page token, no error) without a list call, for every finding and
\* page token, and no grant of another mapper has a security-insight
\* resource as granted resource or as principal
C21_InsightsAreLeaves ==
    /\ ret.op \in InsightLeafOps =>
        /\ ret.out = << >>
        /\ ret.next = ""
        /\ ret.err = "ok"
        /\ ret.sent = << >>
    /\ ret.op \in GrantOps =>
        \A i \in 1 .. Len(ret.out) :
            /\ ret.out[i].resource.type # "security-insight"
            /\ ret.out[i].principal.type # "security-insight"

\* insight Grants was called with a non-empty page token on a listed finding
\* while the upstream has a user with an email, and returned nothing
C21_Witness ==
    /\ ret.op = "security-insight.Grants"
    /\ cur.arg \in ListedOf("security-insight")
    /\ ret.token # ""
    /\ \E i \in 1 .. Len(world.users) : world.users[i].email # ""
    /\ ret.out = << >>

RECURSIVE Attempts(_, _)
Attempts(run, att) == IF Handle(run[att + 1], att) = "sleep" THEN Attempts(run, att + 1) ELSE att + 1
SucceedingRuns == {run \in TransportRuns : graphQLRequest(run) = "ok"}
ListAlone(op, token, run) ==
    CASE op = "user.List" -> UserList(world, token, run)
      [] op = "role.List" -> RoleList(world, token, run)
      [] op = "project.List" -> ProjectList(world, token, run)
      [] op = "security-insight.List" -> InsightList(world, token, run)

TransportFailed == cur.transport \notin {"none", "ok"}

\* C23: when the list call of a List or of project Grants fails, the
\* operation returns an error that wraps the transport's error, no records
\* and no next-page token, after that one list call for the requested page
C23_TransportErrorsPropagate ==
    /\ TransportFailed =>
        /\ ret.err # "ok"
        /\ ret.cause = cur.transport
        /\ ret.out = << >>
        /\ ret.next = ""
        /\ Len(ret.sent) = 1
        /\ ret.op # "role.List" => ret.sent = <<IF ret.token = "" THEN NoCursor ELSE ret.token>>
        /\ cur.phase = "failed"
    /\ ret.err # "ok" => TransportFailed

\* the list call for the second page of the users failed after its retries
\* were used up: an error and no records, the first page is not asked again
C23_Witness ==
    /\ ret.op = "user.List"
    /\ cur.calls = 2
    /\ cur.transport = "err_rate_limit"
    /\ cur.seen # << >>
    /\ ret.token # ""
    /\ ret.err # "ok"
    /\ ret.out = << >>

(***************************************************************************)
(* Properties of concurrent invocations.                                   *)
(***************************************************************************)
RunAlone(op, arg, token, run) ==
    CASE op = "user.List" -> UserList(world, token, run)
      [] op = "role.List" -> RoleList(world, token, run)
      [] op = "project.List" -> ProjectList(world, token, run)
      [] op = "security-insight.List" -> InsightList(world, token, run)
      [] op = "project.Grants" -> ProjectGrants(world, arg, token, run)
      [] op = "user.Grants" -> UserGrants(arg, token)
TypeOfOp(op) ==
    CASE op \in {"user.List", "user.Grants"} -> "user"
      [] op = "role.List" -> "role"
      [] op \in {"project.List", "project.Grants"} -> "project"
      [] op = "security-insight.List" -> "security-insight"

\* C24: whatever the interleaving of the two goroutines' steps, an invocation
\* returns what the same operation returns when it runs alone on the same
\* upstream data with the same resource, page token and transport outcome,
\* and no step changes the upstream data
C24_InvocationsDoNotInterfere ==
    /\ [](\A g \in Goroutines :
            inv[g].pc = "returned" =>
                inv[g].ret = RunAlone(inv[g].op, inv[g].arg, inv[g].token, inv[g].run))
    /\ [][world' = world /\ \A g \in Goroutines :
            (inv[g].pc # "idle" /\ inv'[g].pc # "idle") =>
                /\ inv'[g].op = inv[g].op
                /\ inv'[g].arg = inv[g].arg
                /\ inv'[g].token = inv[g].token]_vars

\* a user List and a project Grants with different page tokens ran side by
\* side, and both have returned
C24_Witness ==
    /\ inv["g1"].pc = "returned"
    /\ inv["g2"].pc = "returned"
    /\ inv["g1"].op = "user.List"
    /\ inv["g2"].op = "project.Grants"
    /\ TypeOfOp(inv["g1"].op) # TypeOfOp(inv["g2"].op)
    /\ inv["g1"].token = ""
    /\ inv["g2"].token # ""
    /\ inv["g1"].ret.out # << >>
    /\ inv["g2"].ret.out # << >>

(***************************************************************************)
(* Properties of the entitlement scheme.                                   *)
(***************************************************************************)
DeclaredSlugs(type) ==
    CASE type = "project" -> Range(ProjectStaticEntitlementSlugs)
      [] type = "role" -> Range(RoleStaticEntitlementSlugs)
      [] OTHER -> {}

\* C25: every grant a Grants operation emits carries a slug that the static
\* entitlements of the granted resource's type declare: owner, champion or
\* member on a project, member on a role
C25_GrantSlugsAreDeclared ==
    /\ ret.op \in GrantOps =>
        \A i \in 1 .. Len(ret.out) :
            /\ ret.out[i].slug \in DeclaredSlugs(ret.out[i].resource.type)
            /\ ret.out[i].resource.type = "project" =>
                   ret.out[i].slug \in {"owner", "champion", "member"}
            /\ ret.out[i].resource.type = "role" => ret.out[i].slug = "member"
    /\ ret.op = "project.StaticEntitlements" => ret.out = ProjectStaticEntitlementSlugs
    /\ ret.op = "role.StaticEntitlements" => ret.out = RoleStaticEntitlementSlugs

\* project Grants has emitted an owner grant and a champion grant
C25_Witness ==
    /\ ret.op = "project.Grants"
    /\ \E i \in 1 .. Len(ret.out) : ret.out[i].slug = "owner"
    /\ \E i \in 1 .. Len(ret.out) : ret.out[i].slug = "champion"

(***************************************************************************)
(* Properties of the configuration.                                        *)
(***************************************************************************)
AllFourSet(cfg) ==
    /\ cfg["wiz-api-url"] # ""
    /\ cfg["wiz-client-id"] # ""
    /\ cfg["wiz-client-secret"] # ""
    /\ cfg["wiz-auth-endpoint"] # ""

ProjectGrantsReturned == ret.op = "project.Grants" /\ ret.err = "ok"

\* C27: once the page that holds the requested project has been processed,
\* project Grants returns an empty next-page token, so that no later page is
\* requested for that project
C27_StopsOnceFound ==
    (ProjectGrantsReturned /\ RequestedProjectsOn(ret.nodes) # {}) => ret.next = ""

(***************************************************************************)
(* Properties of the sleeps of one graphQLRequest call.                    *)
(***************************************************************************)
Retryable(o) == o.do = "error" \/ (o.read = "ok" /\ o.status = StatusTooManyRequests)

\* the delays calculateBackoff can return for the attempt with 0-based index k
DelaysOf(k) ==
    {calculateBackoff(k, baseDelay, maxDelay, jitterPermille, r, JitterSteps) :
        r \in 0 .. (JitterSteps - 1)}

\* C28: within one call exactly one sleep lies between two consecutive HTTP
\* attempts, its delay computed from the 0-based index of the attempt that
\* just failed; there is no sleep before the first attempt, none after a
\* successful or fatal response and none after the final attempt
C28_OneSleepBetweenAttempts ==
    /\ attempt = Len(sleeps)
    /\ requests = 0 => sleeps = << >>
    /\ pc = "do" => requests = Len(sleeps)
    /\ pc \in {"inflight", "sleep"} => requests = Len(sleeps) + 1
    /\ (pc = "done" /\ requests > 0) => Len(sleeps) = requests - 1
    /\ pc = "sleep" => Len(outcomes) = requests /\ requests <= maxRetries
    /\ Len(sleeps) <= maxRetries
    /\ \A i \in 1 .. Len(sleeps) :
        /\ Retryable(outcomes[i])
        /\ sleeps[i] \in DelaysOf(i - 1)
        /\ sleeps[i] * 10 >= 9 * baseDelay * (2 ^ (i - 1))
        /\ sleeps[i] * 10 <= 11 * baseDelay * (2 ^ (i - 1))
    /\ pc = "done" => \A i \in 1 .. Len(outcomes) : i <= Len(sleeps) <=> i < Len(outcomes)

\* a call that succeeded on its third attempt slept twice, about 1 s and
\* about 2 s
C28_Witness ==
    /\ pc = "done"
    /\ result = "ok"
    /\ requests = 3
    /\ Len(sleeps) = 2
    /\ sleeps[1] >= 900 /\ sleeps[1] <= 1100
    /\ sleeps[2] >= 1800 /\ sleeps[2] <= 2200

RECURSIVE SumOf(_)
SumOf(q) == IF q = << >> THEN 0 ELSE Head(q) + SumOf(Tail(q))

\* 1.1 x (1 + 2 + 4 + 8 + 16) s, in milliseconds
MaxTotalSleep == (11 * (baseDelay * (2 ^ maxRetries) - baseDelay)) \div 10

\* C29: one call sleeps at most 5 times and the sum of its sleeps never
\* exceeds 34.1 s, for every sequence of failures and every jitter draw
C29_SleepIsBounded ==
    /\ Len(sleeps) <= 5
    /\ SumOf(sleeps) <= MaxTotalSleep
    /\ SumOf(sleeps) * 10 <= 11 * (baseDelay * (2 ^ Len(sleeps)) - baseDelay)

\* a call that failed six times slept five times, more than 31 s in all
C29_Witness ==
    /\ pc = "done"
    /\ requests = maxRetries + 1
    /\ Len(sleeps) = 5
    /\ SumOf(sleeps) > 31000
    /\ result \in {"err_execute", "err_rate_limit"}

(***************************************************************************)
(* Properties of the insight mapper's List.                                *)
(***************************************************************************)
InsightListReturned == ret.op = "security-insight.List" /\ ret.err = "ok"

\* the positions on the page of the issues with an issue ID and an external ID
Identified(nodes) == {i \in 1 .. Len(nodes) : nodes[i].id # "" /\ nodes[i].externalId # ""}

\* the position on the page of the k-th such issue
NthIdentified(nodes, k) ==
    CHOOSE j \in Identified(nodes) : Cardinality({i \in Identified(nodes) : i <= j}) = k

\* C30: insight List emits exactly one resource per issue of the page that
\* has a non-empty issue ID and a non-empty external ID, in upstream order,
\* whatever its status, severity and entity type, and nothing for an issue
\* that lacks either
C30_OneInsightPerIdentifiedIssue ==
    InsightListReturned =>
        /\ Len(ret.out) = Cardinality(Identified(ret.nodes))
        /\ \A k \in 1 .. Len(ret.out) :
            LET issue == ret.nodes[NthIdentified(ret.nodes, k)]
            IN  /\ ret.out[k].type = "security-insight"
                /\ ret.out[k].id = issue.id \o ":" \o issue.externalId

\* a page with an issue without an ID, which was left out, followed by an
\* in-progress, low-severity issue of a service account, which was emitted
C30_Witness ==
    /\ InsightListReturned
    /\ Len(ret.nodes) = 2
    /\ ret.nodes[1].id = ""
    /\ ret.nodes[2].status = "IN_PROGRESS"
    /\ ret.nodes[2].severity = "LOW"
    /\ ret.nodes[2].entityType = "SERVICE_ACCOUNT"
    /\ Len(ret.out) = 1
    /\ ret.out[1].id = "i4:/subscriptions/s1/sp/b"

====
